---------------------------- MODULE Spec2Model ----------------------------
(***************************************************************************)
(* Reminder scheduling and persistence of bot.py: the JSON store, the      *)
(* notification jobs held by the in-memory scheduler, the start-up         *)
(* rescheduling pass, the cleanup sweep and the reminder dialogue.         *)
(*                                                                         *)
(* Time is counted in seconds.  An instant is written as its wall-clock    *)
(* reading in the configured zone TZ (a fixed-offset zone), counted from   *)
(* midnight of day 0.                                                      *)
(***************************************************************************)
EXTENDS Integers, Sequences, FiniteSets, TLC

VARIABLES
    now,        \* the wall clock, what now_tz() returns
    up,         \* the process is running (module start-up has completed)
    disk,       \* the document in DATA_FILE
    jobs,       \* the date jobs the scheduler holds in memory
    sent,       \* history: how often each notification has been sent
    states,     \* the dict `states`: user -> dialogue state
    nextId,     \* the next fresh reminder id (uuid4 is modelled as a counter)
    th,         \* the local variables of the handler and the sweep thread
    added,      \* history: ids whose add_reminder_to_store has saved
    purged,     \* history: ids cleanup_expired has removed
    last        \* history: the operation that ran last, its inputs and outcome

vars == <<now, up, disk, jobs, sent, states, nextId, th, added, purged, last>>

-----------------------------------------------------------------------------
(* Bounds of the model. *)

\* Reminders ever created, the ones in the first document included.
MaxRem == 2

\* Reminders in a document handed to get_chat_reminders as it stands.
MaxList == 3

(* Program constants. *)

\* AUTO_DELETE_AFTER_HOURS, hours.
AUTO_DELETE_AFTER_HOURS == 24
\* misfire_grace_time = 60 * 10, seconds.
misfire_grace_time == 600
\* The UTC offset of TZ = Europe/Moscow, seconds.
TZ == 10800

Hour == 60 * 60
Day  == 24 * Hour

\* Python's None, and a present value: an optional value is a sequence of
\* length 0 or 1.
None == <<>>
Some(x) == <<x>>
Val(o) == o[1]

Users == {"u1"}
Chats == {1}
\* A chat the user is in besides the one of the dialogue.
OtherChats == {2}

\* The times of day the model offers (build_time_picker's 09:00).
TimeChoices == {9 * Hour}

\* TZ.localize(strptime(f"{date_iso} {time_hhmm}")): day d at t seconds.
EventDt(d, t) == d * Day + t

\* The event instants a dialogue offered the dates `days` can produce.
EventTimes(days) == {EventDt(d, t) : d \in days, t \in TimeChoices}

\* The instants the clock visits when the dates `days` are offered: the two
\* sides of every comparison the code makes between the clock and an event
\* time.
Instants(days) ==
    UNION {{e - Day - 1, e - Day, e - Day + 1,
            e - Day + misfire_grace_time, e - Day + misfire_grace_time + 1,
            e - Hour,
            e,
            e + AUTO_DELETE_AFTER_HOURS * Hour,
            e + AUTO_DELETE_AFTER_HOURS * Hour + 1} : e \in EventTimes(days)}

-----------------------------------------------------------------------------
(* Timestamps: dt_from_iso, dt_to_iso. *)

\* A serialized timestamp: zone-aware (wall clock and UTC offset), zone-less
\* (wall clock alone) or text that datetime.fromisoformat rejects.
Aware(w, o) == [fmt |-> "aware", wall |-> w, off |-> o]
Naive(w)    == [fmt |-> "naive", wall |-> w, off |-> 0]
Bad         == [fmt |-> "bad", wall |-> 0, off |-> 0]

\* fromisoformat, then localize (zone-less) or astimezone (zone-aware);
\* None when fromisoformat raises.
dt_from_iso_utc(s) ==
    CASE s.fmt = "naive" -> Some(s.wall)
      [] s.fmt = "aware" -> Some(s.wall - s.off)
      [] OTHER -> None

dt_from_iso(s) ==
    CASE s.fmt = "naive" -> Some(s.wall)
      [] s.fmt = "aware" -> Some(s.wall - s.off + TZ)
      [] OTHER -> None

dt_to_iso_utc(dt) == Aware(dt, 0)
dt_to_iso(dt) == Aware(dt, TZ)

-----------------------------------------------------------------------------
(* The store: load_data, save_data and the round trips built on them. *)

\* A reminder as finalize_reminder writes it (created_at, which no code
\* reads, is left out).
Reminder(id, chat, user, title, iso, thread) ==
    [id |-> id, chat_id |-> chat, creator_id |-> user, title |-> title,
     event_dt |-> iso, thread_id |-> thread]

EmptyDoc == [reminders |-> <<>>, chat_settings |-> [c \in Chats |-> None]]

\* What DATA_FILE can hold instead of a document: nothing (the file does
\* not exist), text json.load rejects (an empty or cut-off file included),
\* a JSON object without a "reminders" key, a JSON object whose "reminders"
\* is not a list, a JSON array, or a JSON number, string or null.
RawFile(kind) == [raw |-> kind]
RawFiles == {RawFile(k) : k \in {"absent", "not_json", "object_no_reminders",
                                 "reminders_not_list", "json_array",
                                 "json_scalar"}}
IsRaw(file) == "raw" \in DOMAIN file

\* An exception that leaves a function instead of a value.
Raised(e) == [error |-> e]
IsRaised(x) == "error" \in DOMAIN x

\* load_data(): the document read from the file.  On a JSON array
\* data["reminders"] = [] raises TypeError, on a number, a string or null
\* the test "reminders" not in data or the assignment after it does.
load_data(file) ==
    IF ~IsRaw(file) THEN file
    ELSE CASE file.raw = "absent" -> EmptyDoc
           [] file.raw = "not_json" -> EmptyDoc
           [] file.raw = "object_no_reminders" -> EmptyDoc
           [] file.raw = "reminders_not_list" -> EmptyDoc
           [] OTHER -> Raised("TypeError")

save_data(data) == data

\* The file between save_data's open(DATA_FILE, "w"), which empties it, and
\* the end of json.dump: nothing, or the beginning of the new text.
Truncated == RawFile("not_json")

get_allowed_thread_id(file, chat) ==
    LET cs == load_data(file).chat_settings
    IN  IF chat \in DOMAIN cs THEN cs[chat] ELSE None

\* set_allowed_thread_id and clear_allowed_thread_id, from the document
\* they loaded.
set_allowed_thread_id(data, chat, thread_id) ==
    [data EXCEPT !.chat_settings[chat] = Some(thread_id)]
clear_allowed_thread_id(data, chat) ==
    [data EXCEPT !.chat_settings[chat] = None]

Ids(rems) == {rems[i].id : i \in 1..Len(rems)}

\* add_reminder_to_store, from the document it loaded.
AppendReminder(data, rem) ==
    [data EXCEPT !.reminders = Append(@, rem)]

\* The loop body of get_chat_reminders, reschedule_all_from_store and the
\* keep branch of cleanup_expired: rewrite a parseable event_dt canonically.
NormalizedLocal(r) ==
    IF r.event_dt.fmt = "bad" THEN r
    ELSE [r EXCEPT !.event_dt = Aware(r.event_dt.wall, TZ)]
Normalized(r) ==
    LET dt == dt_from_iso(r.event_dt)
    IN  IF dt # None THEN [r EXCEPT !.event_dt = dt_to_iso(Val(dt))] ELSE r

\* Python's order on the strings event_dt holds.  Canonical strings have
\* one width and one offset, so they compare as their wall clocks do; the
\* unparseable text of the model starts with a letter and sorts after
\* every string that starts with a digit.
StrLessBackwards(a, b) == a.fmt # "bad" /\ b.fmt # "bad" /\ b.wall < a.wall
StrLess(a, b) ==
    \/ a.fmt # "bad" /\ b.fmt = "bad"
    \/ a.fmt # "bad" /\ b.fmt # "bad" /\ a.wall < b.wall
    \/ a.fmt # "bad" /\ b.fmt # "bad" /\ a.wall = b.wall
          /\ a.fmt = "naive" /\ b.fmt = "aware"

\* list.sort(key=event_dt): a stable insertion sort.
RECURSIVE InsertSorted(_, _)
InsertSorted(r, s) ==
    IF s = <<>> THEN <<r>>
    ELSE IF StrLess(r.event_dt, Head(s).event_dt)
         THEN <<r>> \o s
         ELSE <<Head(s)>> \o InsertSorted(r, Tail(s))

RECURSIVE SortByEventDt(_)
SortByEventDt(s) ==
    IF s = <<>> THEN <<>>
    ELSE InsertSorted(s[Len(s)], SortByEventDt(SubSeq(s, 1, Len(s) - 1)))

\* The items get_chat_reminders returns.
ChatItemsParseable(data, chat) ==
    LET OfChat(r) == r.chat_id = chat /\ dt_from_iso(r.event_dt) # None
        own == SelectSeq(data.reminders, OfChat)
    IN  SortByEventDt([i \in 1..Len(own) |-> Normalized(own[i])])
ChatItems(data, chat) ==
    LET OfChat(r) == r.chat_id = chat
        own == SelectSeq(data.reminders, OfChat)
    IN  SortByEventDt([i \in 1..Len(own) |-> Normalized(own[i])])

\* `changed` of get_chat_reminders.
ChatChanged(data, chat) ==
    \E i \in 1..Len(data.reminders) :
        /\ data.reminders[i].chat_id = chat
        /\ Normalized(data.reminders[i]) # data.reminders[i]

\* The write-back of get_chat_reminders into the document loaded second.
WriteBackNothing(all_data, items) == all_data
WriteBack(all_data, items) ==
    LET ById(rid) == CHOOSE j \in 1..Len(items) :
                         /\ items[j].id = rid
                         /\ \A k \in j+1..Len(items) : items[k].id # rid
    IN  [all_data EXCEPT !.reminders =
            [i \in 1..Len(@) |->
                IF @[i].id \in Ids(items) THEN items[ById(@[i].id)] ELSE @[i]]]

-----------------------------------------------------------------------------
(* The scheduler: date jobs keyed by id. *)

Kinds == <<"24h", "1h">>

DeltaBoth24(kind) == 24 * Hour
DeltaSwapped(kind) == IF kind = "24h" THEN 1 * Hour ELSE 24 * Hour
Delta(kind) == IF kind = "24h" THEN 24 * Hour ELSE 1 * Hour

\* f"{rem_id}_{kind}"
JobId(rid, kind) == <<rid, kind>>

\* What _send keeps of the reminder it was defined for (its default
\* arguments chat_id and thread_id; title, event_dt and label only make the
\* text).
Closure(reminder) ==
    [chat_id |-> reminder.chat_id,
     thread_id |-> IF "thread_id" \in DOMAIN reminder THEN reminder.thread_id
                   ELSE None]

Job(job_id, run_at, reminder) ==
    [id |-> job_id, run_date |-> run_at, send |-> Closure(reminder)]

\* scheduler.remove_job inside try/except: a missing id is ignored.
remove_job_noop(js, job_id) == js
remove_job(js, job_id) == {j \in js : j.id # job_id}

\* scheduler.add_job(..., id=job_id, replace_existing=True)
add_job(js, job_id, run_at, reminder) ==
    remove_job(js, job_id) \cup {Job(job_id, run_at, reminder)}

\* One pass of the loop of schedule_reminder_jobs.
ScheduleKindOffByOne(js, reminder, event_dt, kind, t) ==
    IF event_dt - Delta(kind) < t
    THEN remove_job(js, JobId(reminder.id, kind))
    ELSE add_job(js, JobId(reminder.id, kind), event_dt - Delta(kind), reminder)
ScheduleKindAlways(js, reminder, event_dt, kind, t) ==
    add_job(js, JobId(reminder.id, kind), event_dt - Delta(kind), reminder)
ScheduleKind(js, reminder, event_dt, kind, t) ==
    LET run_at == event_dt - Delta(kind)
        job_id == JobId(reminder.id, kind)
    IN  IF run_at <= t THEN remove_job(js, job_id)
        ELSE add_job(js, job_id, run_at, reminder)

\* schedule_reminder_jobs(reminder) at time t: the scheduler's jobs after it.
schedule_reminder_jobs_break(js, reminder, t) ==
    LET event_dt == dt_from_iso(reminder.event_dt)
    IN  IF event_dt = None THEN js
        ELSE IF Val(event_dt) - Delta(Kinds[1]) <= t
        THEN remove_job(js, JobId(reminder.id, Kinds[1]))
        ELSE ScheduleKind(ScheduleKind(js, reminder, Val(event_dt), Kinds[1], t),
                          reminder, Val(event_dt), Kinds[2], t)
schedule_reminder_jobs(js, reminder, t) ==
    LET event_dt == dt_from_iso(reminder.event_dt)
    IN  IF event_dt = None THEN js
        ELSE ScheduleKind(ScheduleKind(js, reminder, Val(event_dt), Kinds[1], t),
                          reminder, Val(event_dt), Kinds[2], t)

\* The keys schedule_reminder_jobs reads with reminder[...]: a reminder
\* that lacks one makes it raise KeyError.
RequiredKeys == {"id", "chat_id", "title", "event_dt"}
ScheduleRaises(reminder) == ~(RequiredKeys \subseteq DOMAIN reminder)

\* The loop of reschedule_all_from_store over the reminders it loaded.
RECURSIVE ScheduleAll(_, _, _)
ScheduleAll(js, rems, t) ==
    IF rems = <<>> THEN js
    ELSE ScheduleAll(schedule_reminder_jobs(js, Normalized(Head(rems)), t),
                     Tail(rems), t)

\* The document reschedule_all_from_store saves.
RescheduledDoc(data) ==
    [data EXCEPT !.reminders = [i \in 1..Len(@) |-> Normalized(@[i])]]

-----------------------------------------------------------------------------
(* cleanup_expired *)

cutoff(t) == t - AUTO_DELETE_AFTER_HOURS * Hour

\* The test that sends a reminder to `keep`.
KeptAfterCutoff(r, t) ==
    LET dt == dt_from_iso(r.event_dt)
    IN  dt # None /\ Val(dt) > cutoff(t)
KeptUnparsed(r, t) ==
    LET dt == dt_from_iso(r.event_dt)
    IN  dt = None \/ ~(Val(dt) < cutoff(t))
KeptParsed(r, t) == dt_from_iso(r.event_dt) # None
Kept(r, t) ==
    LET dt == dt_from_iso(r.event_dt)
    IN  dt # None /\ ~(Val(dt) < cutoff(t))

\* keep, as cleanup_expired builds it.
KeepList(rems, t) ==
    LET K(r) == Kept(r, t)
        kept == SelectSeq(rems, K)
    IN  [i \in 1..Len(kept) |-> Normalized(kept[i])]

\* removed_ids, as a set.
RemovedIds(rems, t) == {rems[i].id : i \in {k \in 1..Len(rems) : ~Kept(rems[k], t)}}

\* The jobs left after the remove_job calls of cleanup_expired.
JobsAfterCleanupNone(js, removed) == js
JobsAfterCleanup(js, removed) == {j \in js : j.id[1] \notin removed}

-----------------------------------------------------------------------------
(* The state. *)

\* What a user can type: nothing but blanks, a word, a date as
\* day.month.year or year-month-day, a time as HH:MM ("09:00"); and the
\* same time without its leading zero ("9:00").
Text(k, v) == [k |-> k, v |-> v]
Empty == Text("empty", 0)
Word  == Text("word", 0)

Texts(days) == {Empty, Word} \cup {Text("dmy", d) : d \in days}
                             \cup {Text("ymd", d) : d \in days}
                             \cup {Text("hhmm", t) : t \in TimeChoices}

\* `not title` for title = (message.text or "").strip()
IsBlankNever(text) == FALSE
IsBlank(text) == text = Empty

\* A time typed without its leading zero.
Unpadded == {Text("hmm", t) : t \in TimeChoices}

\* validate_time_hhmm: strptime(s, "%H:%M") takes the hour with or without
\* its leading zero.
validate_time_hhmm(text) == text.k \in {"hhmm", "hmm"}

\* A dialogue state, as rem_add creates it: no "title" and no "date" key yet.
NewState(chat, thread) ==
    [step |-> "title", chat_id |-> chat, thread_id |-> thread,
     title |-> None, date |-> None]

\* `last`: the operation, its outcome, the chat and the reminder id it was
\* about, the event time it computed, and the reminders it returned
\* (rem_list) or had loaded (cleanup), or the dialogue state it found
\* (cancel), or the topic the message went into (run_job).
Last(op, res, chat, rid, event, items) ==
    [op |-> op, res |-> res, chat |-> chat, rid |-> rid, event |-> event,
     items |-> items]

\* What `last` holds after an operation no property looks back at.
Other == Last("other", "", 0, 0, None, <<>>)

Idle == [h |-> [pc |-> "idle", data |-> EmptyDoc, rem |-> None],
         c |-> [pc |-> "idle", data |-> EmptyDoc]]

\* The ways an earlier run, an older version or a hand edit can have left
\* the event time e in the file: canonical, zone-less, in UTC, unparseable.
StoredForms(e) == {Aware(e, TZ), Naive(e), Aware(e - TZ, 0), Bad}

\* The documents the first start-up can find: empty, or one reminder for
\* day 1.
FirstDocs ==
    {EmptyDoc} \cup
    {AppendReminder(EmptyDoc, Reminder(1, c, u, Word, f, None)) :
        c \in Chats, u \in Users, f \in UNION {StoredForms(e) : e \in EventTimes({1})}}

\* The clock starts more than 24 hours before the first event time.
FirstInstant == CHOOSE t \in Instants({1}) : \A x \in Instants({1}) : t <= x

JobIds == {JobId(r, Kinds[k]) : r \in 1..MaxRem, k \in 1..2}

Init ==
    /\ now = FirstInstant
    /\ up = FALSE
    /\ disk \in FirstDocs
    /\ jobs = {}
    /\ sent = [j \in JobIds |-> 0]
    /\ states = [u \in Users |-> None]
    /\ nextId = Len(disk.reminders) + 1
    /\ th = Idle
    /\ added = Ids(disk.reminders)
    /\ purged = {}
    /\ last = Other

-----------------------------------------------------------------------------
(* Time, the process and the scheduler's thread. *)

\* Time passes.  While the process runs, the scheduler's thread takes up a
\* due job at the latest one second after its grace time has run out.
Tick(t) ==
    /\ t > now
    /\ up => \A j \in jobs : t <= j.run_date + misfire_grace_time + 1
    /\ now' = t
    /\ last' = Other
    /\ UNCHANGED <<up, disk, jobs, sent, states, nextId, th, added, purged>>

\* Module start-up: reschedule_all_from_store(), then the cleanup job is
\* registered and polling starts.
Start ==
    /\ ~up
    /\ LET data == load_data(disk)
       IN  IF IsRaised(data)
           THEN \* the exception ends the import of the module: no process
                /\ last' = Last("start", data.error, 0, 0, None, <<>>)
                /\ UNCHANGED <<up, jobs, disk>>
           ELSE IF \E i \in 1..Len(data.reminders) : ScheduleRaises(data.reminders[i])
           THEN \* so does the one of schedule_reminder_jobs, before save_data
                /\ last' = Last("start", "KeyError", 0, 0, None, <<>>)
                /\ UNCHANGED <<up, jobs, disk>>
           ELSE /\ jobs' = ScheduleAll({}, data.reminders, now)
                /\ disk' = save_data(RescheduledDoc(data))
                /\ up' = TRUE
                /\ last' = Last("start", "", 0, 0, None, <<>>)
    /\ UNCHANGED <<now, sent, states, nextId, th, added, purged>>

\* The process ends (admin_stop_bot's os._exit, a crash, a redeploy): the
\* scheduler's jobs and the dialogue states are memory and are gone.
Stop ==
    /\ up
    /\ th = Idle
    /\ up' = FALSE
    /\ jobs' = {}
    /\ states' = [u \in Users |-> None]
    /\ last' = Other
    /\ UNCHANGED <<now, disk, sent, nextId, th, added, purged>>

\* send_locked, as _send calls it: get_allowed_thread_id reads the file
\* before the try; the first bot.send_message is inside the try and goes
\* into the pinned topic, else into fallback_thread_id, else into no topic;
\* the one of the except branch is outside any try and names no topic.
\* ok1 and ok2 say whether Telegram takes the first and the second
\* bot.send_message.  The result: the outcome and the topic the message
\* went into.
send_locked_fallback_first(file, chat_id, fallback_thread_id, ok1, ok2) ==
    IF IsRaised(load_data(file)) THEN [res |-> "raised", thread |-> None]
    ELSE LET allowed == get_allowed_thread_id(file, chat_id)
             first == IF fallback_thread_id # None THEN fallback_thread_id
                      ELSE allowed
         IN  IF ok1 THEN [res |-> "sent", thread |-> first]
             ELSE IF ok2 THEN [res |-> "sent_unthreaded", thread |-> None]
             ELSE [res |-> "raised", thread |-> None]
send_locked(file, chat_id, fallback_thread_id, ok1, ok2) ==
    IF IsRaised(load_data(file)) THEN [res |-> "raised", thread |-> None]
    ELSE LET allowed == get_allowed_thread_id(file, chat_id)
             first == IF allowed # None THEN allowed ELSE fallback_thread_id
         IN  IF ok1 THEN [res |-> "sent", thread |-> first]
             ELSE IF ok2 THEN [res |-> "sent_unthreaded", thread |-> None]
             ELSE [res |-> "raised", thread |-> None]

\* The scheduler takes up a date job that is due: it runs _send unless the
\* job is later than misfire_grace_time, and drops the job either way.  An
\* exception that leaves _send reaches the scheduler's executor, which logs
\* it; the process goes on.
RunJob(j) ==
    /\ up
    /\ j \in jobs
    /\ j.run_date <= now
    /\ jobs' = jobs \ {j}
    /\ \E ok1, ok2 \in BOOLEAN :
          LET missed == now - j.run_date > misfire_grace_time
              out == IF missed THEN [res |-> "missed", thread |-> None]
                     ELSE send_locked(disk, j.send.chat_id, j.send.thread_id, ok1, ok2)
          IN  /\ sent' = IF out.res \in {"sent", "sent_unthreaded"}
                         THEN [sent EXCEPT ![j.id] = @ + 1] ELSE sent
              /\ last' = Last("run_job", out.res, j.send.chat_id, j.id[1], None,
                              out.thread)
    /\ UNCHANGED <<now, up, disk, states, nextId, th, added, purged>>

\* cleanup_expired, run by the interval job, as one step.
Cleanup ==
    /\ up
    /\ th.c.pc = "idle"
    /\ LET data == load_data(disk)
           removed == RemovedIds(data.reminders, now)
       IN  IF data.reminders = <<>> \/ removed = {}
           THEN /\ UNCHANGED <<disk, jobs, purged>>
                /\ last' = Last("cleanup", "nothing", 0, 0, None, data.reminders)
           ELSE /\ jobs' = JobsAfterCleanup(jobs, removed)
                /\ disk' = save_data([data EXCEPT !.reminders = KeepList(@, now)])
                /\ purged' = purged \cup removed
                /\ last' = Last("cleanup", "saved", 0, 0, None, data.reminders)
    /\ UNCHANGED <<now, up, sent, states, nextId, th, added>>

-----------------------------------------------------------------------------
(* The handlers of the reminder dialogue.  The chats of the model are      *)
(* private chats, for which in_allowed_topic_for_call and                   *)
(* in_allowed_topic_for_message return True.                                *)

\* states.get(user_id)
get_state_any(sts, user_id) ==
    IF \E v \in DOMAIN sts : sts[v] # None
    THEN sts[CHOOSE v \in DOMAIN sts : sts[v] # None]
    ELSE None
get_state(sts, user_id) == sts[user_id]

\* int(st.get("chat_id")) == int(chat_id), for the state st holds
SameChatAlways(st, chat_id) == TRUE
SameChat(st, chat_id) == Val(st).chat_id = chat_id

\* clear_user_state
clear_user_state_keep(sts, user_id) == sts
clear_user_state(sts, user_id) == [sts EXCEPT ![user_id] = None]

\* The thread a new reminder is bound to: the pinned topic, else the
\* dialogue's own.
ReminderThread(file, chat_id, st) ==
    IF get_allowed_thread_id(file, chat_id) # None
    THEN get_allowed_thread_id(file, chat_id) ELSE st.thread_id

\* The test of finalize_reminder that turns a time down: event_dt <= now_tz()
IsPastStrict(event_dt, t) == event_dt < t
IsPast(event_dt, t) == event_dt <= t

\* What finalize_reminder does to the state when it turns a time down:
\* st["step"] = "date_pick"
BackToDatePickNoTitle(st) == [st EXCEPT !.step = "date_pick", !.title = None]
BackToDatePick(st) == [st EXCEPT !.step = "date_pick"]

\* finalize_reminder(user_id, chat_id, time_hhmm), as one step.
finalize_reminder(user_id, chat_id, time_hhmm) ==
    IF get_state(states, user_id) = None
    THEN /\ last' = Last("finalize", "no_state", chat_id, 0, None, <<>>)
         /\ UNCHANGED <<disk, jobs, states, nextId, added>>
    ELSE LET st == Val(get_state(states, user_id)) IN
    IF st.title = None \/ st.date = None
    THEN \* st["title"] or st["date"] raises KeyError: the handler ends there
         /\ last' = Last("finalize", "key_error", chat_id, 0, None, <<>>)
         /\ UNCHANGED <<disk, jobs, states, nextId, added>>
    ELSE LET event_dt == EventDt(Val(st.date), time_hhmm) IN
    IF IsPast(event_dt, now)
    THEN /\ states' = [states EXCEPT ![user_id] = Some(BackToDatePick(st))]
         /\ last' = Last("finalize", "past", chat_id, 0, Some(event_dt), <<>>)
         /\ UNCHANGED <<disk, jobs, nextId, added>>
    ELSE LET rem == Reminder(nextId, chat_id, user_id, Val(st.title),
                             dt_to_iso(event_dt),
                             ReminderThread(disk, chat_id, st))
         IN  /\ nextId <= MaxRem
             /\ disk' = save_data(AppendReminder(load_data(disk), rem))
             /\ jobs' = schedule_reminder_jobs(jobs, rem, now)
             /\ states' = clear_user_state(states, user_id)
             /\ nextId' = nextId + 1
             /\ added' = added \cup {rem.id}
             /\ last' = Last("finalize", "added", chat_id, rem.id,
                             Some(event_dt), <<>>)

\* How far the dialogue rem_add finds has come: there is none, it has
\* begun, or it holds a title and a date.
Progress(st) ==
    IF st = None THEN "none"
    ELSE IF Val(st).title # None /\ Val(st).date # None THEN "entered"
    ELSE "begun"

\* reminders_menu_callbacks, data == "rem_add"
RemAddMerge(user_id, chat_id) ==
    /\ up /\ th.h.pc = "idle"
    /\ states' = [states EXCEPT
                    ![user_id] = IF @ = None THEN Some(NewState(chat_id, None))
                                 ELSE Some([Val(@) EXCEPT !.step = "title",
                                                          !.chat_id = chat_id])]
    /\ last' = Last("rem_add", Progress(states[user_id]), chat_id, 0, None, <<>>)
    /\ UNCHANGED <<now, up, disk, jobs, sent, nextId, th, added, purged>>
RemAdd(user_id, chat_id) ==
    /\ up /\ th.h.pc = "idle"
    /\ states' = [clear_user_state(states, user_id) EXCEPT
                    ![user_id] = Some(NewState(chat_id, None))]
    /\ last' = Last("rem_add", Progress(states[user_id]), chat_id, 0, None, <<>>)
    /\ UNCHANGED <<now, up, disk, jobs, sent, nextId, th, added, purged>>

\* reminders_menu_callbacks, data == "rem_list": get_chat_reminders and the
\* listing sent.
RemList(chat_id) ==
    /\ up /\ th.h.pc = "idle"
    /\ LET data == load_data(disk)
           items == ChatItems(data, chat_id)
       IN  /\ disk' = IF ChatChanged(data, chat_id)
                      THEN save_data(WriteBack(load_data(disk), items))
                      ELSE disk
           /\ last' = Last("rem_list",
                           IF ChatChanged(data, chat_id) THEN "written" ELSE "",
                           chat_id, 0, None, items)
    /\ UNCHANGED <<now, up, jobs, sent, states, nextId, th, added, purged>>

\* What a pressed button carries (call.data).
Cb(k, v) == [k |-> k, v |-> v]

Buttons(days) == {Cb("cancel", 0), Cb("date_manual", 0), Cb("time_manual", 0)}
                     \cup {Cb("date", d) : d \in days}
                     \cup {Cb("time", t) : t \in TimeChoices}

\* callbacks_reminders
callbacks_reminders(user_id, chat_id, data) ==
    /\ up /\ th.h.pc = "idle"
    /\ LET st == get_state(states, user_id)
           Set(new) == /\ states' = [states EXCEPT ![user_id] = Some(new)]
                       /\ last' = Other
                       /\ UNCHANGED <<disk, jobs, nextId, added>>
       IN  IF data.k = "cancel"
           THEN /\ states' = clear_user_state(states, user_id)
                /\ last' = Last("cancel", IF st = None THEN "none" ELSE Val(st).step,
                                chat_id, 0, None, st)
                /\ UNCHANGED <<disk, jobs, nextId, added>>
           ELSE IF st = None \/ ~SameChat(st, chat_id)
           THEN /\ last' = IF st = None
                          THEN Last("ignored", "none", chat_id, 0, None, <<>>)
                          ELSE Other
                /\ UNCHANGED <<disk, jobs, states, nextId, added>>
           ELSE CASE data.k = "date" ->
                       Set([Val(st) EXCEPT !.date = Some(data.v), !.step = "time_pick"])
                  [] data.k = "date_manual" ->
                       Set([Val(st) EXCEPT !.step = "date_manual"])
                  [] data.k = "time" ->
                       finalize_reminder(user_id, chat_id, data.v)
                  [] data.k = "time_manual" ->
                       Set([Val(st) EXCEPT !.step = "time_manual"])
    /\ UNCHANGED <<now, up, sent, th, purged>>

\* text_router, the reminder dialogue's part.
text_router(user_id, chat_id, text) ==
    /\ up /\ th.h.pc = "idle"
    /\ LET st == get_state(states, user_id)
           \* a return with nothing sent
           Ignore == /\ last' = IF st = None
                                THEN Last("ignored", "none", chat_id, 0, None, <<>>)
                                ELSE Other
                     /\ UNCHANGED <<disk, jobs, states, nextId, added>>
           \* a return after the message that asks again
           Reprompt == /\ last' = Other
                       /\ UNCHANGED <<disk, jobs, states, nextId, added>>
           Set(new) == /\ states' = [states EXCEPT ![user_id] = Some(new)]
                       /\ last' = Other
                       /\ UNCHANGED <<disk, jobs, nextId, added>>
       IN  IF st = None \/ ~SameChat(st, chat_id)
           THEN Ignore
           ELSE CASE Val(st).step = "title" ->
                       IF IsBlank(text) THEN Reprompt
                       ELSE Set([Val(st) EXCEPT !.title = Some(text),
                                                !.step = "date_pick"])
                  [] Val(st).step = "date_manual" ->
                       IF text.k \in {"dmy", "ymd"}
                       THEN Set([Val(st) EXCEPT !.date = Some(text.v),
                                                !.step = "time_pick"])
                       ELSE Reprompt
                  [] Val(st).step = "time_manual" ->
                       IF validate_time_hhmm(text)
                       THEN finalize_reminder(user_id, chat_id, text.v)
                       ELSE Reprompt
                  [] OTHER -> Ignore
    /\ UNCHANGED <<now, up, sent, th, purged>>

-----------------------------------------------------------------------------
(* The life of reminders: the clock, restarts, the scheduler's thread, the  *)
(* cleanup sweep, and the dialogue driven along its buttons.  Every handler *)
(* and every sweep runs as one step.                                        *)

\* The dates offered here: days 1 and 2.
LifeDays == {1, 2}

PickButtons == {b \in Buttons(LifeDays) : b.k \in {"date", "time"}}

Next ==
    \/ \E t \in Instants(LifeDays) : Tick(t)
    \/ Start
    \/ Stop
    \/ \E j \in jobs : RunJob(j)
    \/ Cleanup
    \/ \E u \in Users, c \in Chats : RemAdd(u, c)
    \/ \E u \in Users, c \in Chats, b \in PickButtons : callbacks_reminders(u, c, b)
    \/ \E u \in Users, c \in Chats : text_router(u, c, Word)

Spec == Init /\ [][Next]_vars

(* The two threads that share DATA_FILE, step by step: the handler thread  *)
(* in finalize_reminder with add_reminder_to_store's load and save as two  *)
(* steps, and the scheduler's thread in cleanup_expired likewise.          *)

\* finalize_reminder up to add_reminder_to_store's load_data(): the checks,
\* the new reminder, the document loaded.
FinalizeLoad(user_id, chat_id, time_hhmm) ==
    /\ up /\ th.h.pc = "idle"
    /\ states[user_id] # None
    /\ LET st == Val(states[user_id]) IN
       /\ st.chat_id = chat_id
       /\ st.title # None /\ st.date # None
       /\ ~IsPast(EventDt(Val(st.date), time_hhmm), now)
       /\ nextId <= MaxRem
       /\ th' = [th EXCEPT !.h =
                    [pc |-> "add", data |-> load_data(disk),
                     rem |-> Some(Reminder(nextId, chat_id, user_id, Val(st.title),
                                           dt_to_iso(EventDt(Val(st.date), time_hhmm)),
                                           ReminderThread(disk, chat_id, st)))]]
    /\ nextId' = nextId + 1
    /\ last' = Other
    /\ UNCHANGED <<now, up, disk, jobs, sent, states, added, purged>>

\* The rest of finalize_reminder: append, save_data, schedule_reminder_jobs,
\* clear_user_state.
FinalizeSave ==
    /\ th.h.pc = "add"
    /\ LET rem == Val(th.h.rem) IN
       /\ disk' = save_data(AppendReminder(th.h.data, rem))
       /\ jobs' = schedule_reminder_jobs(jobs, rem, now)
       /\ states' = clear_user_state(states, rem.creator_id)
       /\ added' = added \cup {rem.id}
       /\ last' = Last("finalize", "added", rem.chat_id, rem.id,
                       dt_from_iso(rem.event_dt), <<>>)
    /\ th' = [th EXCEPT !.h = Idle.h]
    /\ UNCHANGED <<now, up, sent, nextId, purged>>

\* cleanup_expired up to its load_data().
CleanupLoad ==
    /\ up /\ th.c.pc = "idle"
    /\ th' = [th EXCEPT !.c = [pc |-> "loaded", data |-> load_data(disk)]]
    /\ last' = Other
    /\ UNCHANGED <<now, up, disk, jobs, sent, states, nextId, added, purged>>

\* The rest of cleanup_expired, on the document it loaded.
CleanupSave ==
    /\ th.c.pc = "loaded"
    /\ LET data == th.c.data
           removed == RemovedIds(data.reminders, now)
       IN  IF data.reminders = <<>> \/ removed = {}
           THEN /\ UNCHANGED <<disk, jobs, purged>>
                /\ last' = Last("cleanup", "nothing", 0, 0, None, data.reminders)
           ELSE /\ jobs' = JobsAfterCleanup(jobs, removed)
                /\ disk' = save_data([data EXCEPT !.reminders = KeepList(@, now)])
                /\ purged' = purged \cup removed
                /\ last' = Last("cleanup", "saved", 0, 0, None, data.reminders)
    /\ th' = [th EXCEPT !.c = Idle.c]
    /\ UNCHANGED <<now, up, sent, states, nextId, added>>

\* The dates offered where threads race: day 1, and day 3, which is still
\* ahead when a reminder of day 1 has expired.
RaceDays == {1, 3}

NextRace ==
    \/ \E t \in Instants({1}) : Tick(t)
    \/ Start
    \/ \E u \in Users, c \in Chats : RemAdd(u, c)
    \/ \E u \in Users, c \in Chats : text_router(u, c, Word)
    \/ \E u \in Users, c \in Chats, d \in RaceDays :
           callbacks_reminders(u, c, Cb("date", d))
    \/ \E u \in Users, c \in Chats, t \in TimeChoices : FinalizeLoad(u, c, t)
    \/ FinalizeSave
    \/ CleanupLoad
    \/ CleanupSave

SpecRace == Init /\ [][NextRace]_vars

(* The same two threads with the listing beside them, and the interval job *)
(* of cleanup_expired run again and again while the process is up: every   *)
(* sweep that is due starts, and every sweep that has started ends.        *)

NextPurge ==
    \/ NextRace
    \/ \E c \in Chats : RemList(c)

SpecPurge ==
    Init /\ [][NextPurge]_vars /\ WF_vars(CleanupLoad) /\ WF_vars(CleanupSave)

(* The dialogue with all its inputs, and the listing, in a process that    *)
(* stays up.                                                               *)

\* The dates offered here: day 1.
DialogueDays == {1}

NextDialogue ==
    \/ \E t \in Instants(DialogueDays) : Tick(t)
    \/ Start
    \/ \E u \in Users, c \in Chats : RemAdd(u, c)
    \/ \E c \in Chats : RemList(c)
    \/ \E u \in Users, c \in Chats, b \in Buttons(DialogueDays) :
           callbacks_reminders(u, c, b)
    \/ \E u \in Users, c \in Chats, x \in Texts(DialogueDays) :
           text_router(u, c, x)

SpecDialogue == Init /\ [][NextDialogue]_vars

(* The same dialogue typed by a user who also writes the time without its  *)
(* leading zero, at a clock that stands still.                             *)

NextEntry ==
    \/ Start
    \/ \E u \in Users, c \in Chats : RemAdd(u, c)
    \/ \E u \in Users, c \in Chats, b \in Buttons(DialogueDays) :
           callbacks_reminders(u, c, b)
    \/ \E u \in Users, c \in Chats, x \in Texts(DialogueDays) \cup Unpadded :
           text_router(u, c, x)

SpecEntry == Init /\ [][NextEntry]_vars

(* save_data step by step: the sweep's save as the open that empties the  *)
(* file and the write that fills it, with the handler thread reading in    *)
(* between.                                                                *)

\* cleanup_expired from its partition to save_data's open(): the jobs are
\* removed and the file is emptied.  The thread remembers the document it
\* writes, the one the file held and the ids it removes.
CleanupOpen ==
    /\ th.c.pc = "loaded"
    /\ LET data == th.c.data
           removed == RemovedIds(data.reminders, now)
       IN  IF data.reminders = <<>> \/ removed = {}
           THEN /\ th' = [th EXCEPT !.c = Idle.c]
                /\ last' = Last("cleanup", "nothing", 0, 0, None, data.reminders)
                /\ UNCHANGED <<disk, jobs>>
           ELSE /\ jobs' = JobsAfterCleanup(jobs, removed)
                /\ disk' = Truncated
                /\ th' = [th EXCEPT !.c =
                             [pc |-> "writing",
                              data |-> [data EXCEPT !.reminders = KeepList(@, now)],
                              old |-> disk,
                              removed |-> removed]]
                /\ last' = Other
    /\ UNCHANGED <<now, up, sent, states, nextId, added, purged>>

\* json.dump and the close of the file.
CleanupWrite ==
    /\ th.c.pc = "writing"
    /\ disk' = save_data(th.c.data)
    /\ purged' = purged \cup th.c.removed
    /\ th' = [th EXCEPT !.c = Idle.c]
    /\ last' = Last("cleanup", "saved", 0, 0, None, <<>>)
    /\ UNCHANGED <<now, up, jobs, sent, states, nextId, added>>

NextWrite ==
    \/ \E t \in Instants({1}) : Tick(t)
    \/ Start
    \/ \E u \in Users, c \in Chats : RemAdd(u, c)
    \/ \E c \in Chats : RemList(c)
    \/ \E u \in Users, c \in Chats : text_router(u, c, Word)
    \/ \E u \in Users, c \in Chats, d \in RaceDays :
           callbacks_reminders(u, c, Cb("date", d))
    \/ \E u \in Users, c \in Chats, t \in TimeChoices : FinalizeLoad(u, c, t)
    \/ FinalizeSave
    \/ CleanupLoad
    \/ CleanupOpen
    \/ CleanupWrite

SpecWrite == Init /\ [][NextWrite]_vars

(* get_chat_reminders on the file as it stands: the process runs and the  *)
(* file holds reminders of two chats, in any order and in any of the       *)
(* stored forms, as a file that was written by another version or edited   *)
(* while the bot runs does.                                                *)

\* What one stored reminder of such a document is made of: its chat, its
\* creator and the form of its event_dt.
ListChoices(days) ==
    (Chats \cup OtherChats) \X Users \X UNION {StoredForms(e) : e \in EventTimes(days)}

\* The document of the reminders 1..n made of x[1], ..., x[n].
ListDoc(n, x) ==
    [EmptyDoc EXCEPT !.reminders =
        [i \in 1..n |-> Reminder(i, x[i][1], x[i][2], Word, x[i][3], None)]]

InitList ==
    /\ now = FirstInstant
    /\ up = TRUE
    /\ \E n \in 0..MaxList : \E x \in [1..n -> ListChoices(LifeDays)] :
          disk = ListDoc(n, x)
    /\ jobs = {}
    /\ sent = [j \in JobIds |-> 0]
    /\ states = [u \in Users |-> None]
    /\ nextId = Len(disk.reminders) + 1
    /\ th = Idle
    /\ added = Ids(disk.reminders)
    /\ purged = {}
    /\ last = Other

NextList == \E c \in Chats \cup OtherChats : RemList(c)

SpecList == InitList /\ [][NextList]_vars

(* Start-up on a DATA_FILE that holds no document, and the life of the   *)
(* process after it.                                                       *)

\* A reminder as a file written by hand or by another program can hold
\* it: without one of its keys.
Without(r, key) == [k \in DOMAIN r \ {key} |-> r[k]]

\* Documents of two reminders for day 1, one as finalize_reminder writes
\* it and one that lacks a key.
BrokenDocs ==
    {[EmptyDoc EXCEPT !.reminders =
         <<Reminder(1, c, u, Word, dt_to_iso(e), None),
           Without(Reminder(2, c, u, Word, dt_to_iso(e), None), key)>>] :
        c \in Chats, u \in Users, e \in EventTimes({1}),
        key \in RequiredKeys \cup {"thread_id"}}

InitFiles ==
    /\ now = FirstInstant
    /\ up = FALSE
    /\ disk \in RawFiles \cup BrokenDocs
    /\ jobs = {}
    /\ sent = [j \in JobIds |-> 0]
    /\ states = [u \in Users |-> None]
    /\ nextId = IF IsRaw(disk) THEN 1 ELSE Len(disk.reminders) + 1
    /\ th = Idle
    /\ added = IF IsRaw(disk) THEN {} ELSE {1, 2}
    /\ purged = {}
    /\ last = Other

NextFiles ==
    \/ \E t \in Instants(DialogueDays) : Tick(t)
    \/ Start
    \/ Stop
    \/ \E j \in jobs : RunJob(j)
    \/ Cleanup
    \/ \E u \in Users, c \in Chats : RemAdd(u, c)
    \/ \E c \in Chats : RemList(c)
    \/ \E u \in Users, c \in Chats, b \in Buttons(DialogueDays) :
           callbacks_reminders(u, c, b)
    \/ \E u \in Users, c \in Chats : text_router(u, c, Word)

SpecFiles == InitFiles /\ [][NextFiles]_vars

(* The dialogue of a user who is also in another chat: the state is made  *)
(* in a chat of Chats, buttons are pressed and texts sent there and in a    *)
(* chat of OtherChats.                                                      *)

NextChats ==
    \/ \E t \in Instants(DialogueDays) : Tick(t)
    \/ Start
    \/ \E u \in Users, c \in Chats : RemAdd(u, c)
    \/ \E u \in Users, c \in Chats \cup OtherChats, b \in Buttons(DialogueDays) :
           callbacks_reminders(u, c, b)
    \/ \E u \in Users, c \in Chats \cup OtherChats, x \in Texts(DialogueDays) :
           text_router(u, c, x)

SpecChats == Init /\ [][NextChats]_vars

(* Two users in one chat: each has a dialogue state of their own or none.   *)

\* A second user of the chat.
OtherUsers == {"u2"}

InitUsers ==
    /\ now = FirstInstant
    /\ up = FALSE
    /\ disk \in FirstDocs
    /\ jobs = {}
    /\ sent = [j \in JobIds |-> 0]
    /\ states = [u \in Users \cup OtherUsers |-> None]
    /\ nextId = Len(disk.reminders) + 1
    /\ th = Idle
    /\ added = Ids(disk.reminders)
    /\ purged = {}
    /\ last = Other

NextUsers ==
    \/ Start
    \/ \E u \in Users \cup OtherUsers, c \in Chats : RemAdd(u, c)
    \/ \E u \in Users \cup OtherUsers, c \in Chats, b \in Buttons(DialogueDays) :
           callbacks_reminders(u, c, b)
    \/ \E u \in Users \cup OtherUsers, c \in Chats, x \in {Empty, Word} :
           text_router(u, c, x)

SpecUsers == InitUsers /\ [][NextUsers]_vars

(* Two users who are both in two chats: each starts dialogues in either    *)
(* chat and presses and types in either chat.                              *)

NextOwners ==
    \/ Start
    \/ \E u \in Users \cup OtherUsers, c \in Chats \cup OtherChats : RemAdd(u, c)
    \/ \E u \in Users \cup OtherUsers, c \in Chats \cup OtherChats,
          b \in Buttons(DialogueDays) :
           b.k \in {"date", "time"} /\ callbacks_reminders(u, c, b)
    \/ \E u \in Users \cup OtherUsers, c \in Chats \cup OtherChats :
           text_router(u, c, Word)

SpecOwners == InitUsers /\ [][NextOwners]_vars

(* A group chat with topics: an admin pins a topic and clears the pin      *)
(* while reminders made in another topic, or in none, are stored, added    *)
(* and come due.  The users press and type inside the pinned topic, where  *)
(* in_allowed_topic_for_call and in_allowed_topic_for_message return True. *)

\* The topic the admin pins, and another topic of the chat.
PinTopic == 7
OtherTopic == 8

\* nav_callbacks, data == "admin_pin_topic", pressed in the topic tid
admin_pin_topic(user_id, chat_id, tid) ==
    /\ up /\ th.h.pc = "idle"
    /\ ~IsRaised(load_data(disk))
    /\ disk' = save_data(set_allowed_thread_id(load_data(disk), chat_id, tid))
    /\ states' = clear_user_state(states, user_id)
    /\ last' = Other
    /\ UNCHANGED <<now, up, jobs, sent, nextId, th, added, purged>>

\* admin_topic_clear
admin_topic_clear(chat_id) ==
    /\ up /\ th.h.pc = "idle"
    /\ ~IsRaised(load_data(disk))
    /\ disk' = save_data(clear_allowed_thread_id(load_data(disk), chat_id))
    /\ last' = Other
    /\ UNCHANGED <<now, up, jobs, sent, states, nextId, th, added, purged>>

\* The documents start-up finds: empty, or one reminder for day 1 made in
\* no topic or in OtherTopic.
TopicDocs ==
    {EmptyDoc} \cup
    {AppendReminder(EmptyDoc, Reminder(1, c, u, Word, dt_to_iso(e), thread)) :
        c \in Chats, u \in Users, e \in EventTimes({1}),
        thread \in {None, Some(OtherTopic)}}

InitTopic ==
    /\ now = FirstInstant
    /\ up = FALSE
    /\ disk \in TopicDocs
    /\ jobs = {}
    /\ sent = [j \in JobIds |-> 0]
    /\ states = [u \in Users |-> None]
    /\ nextId = Len(disk.reminders) + 1
    /\ th = Idle
    /\ added = Ids(disk.reminders)
    /\ purged = {}
    /\ last = Other

NextTopic ==
    \/ \E t \in Instants(DialogueDays) : Tick(t)
    \/ Start
    \/ \E j \in jobs : RunJob(j)
    \/ \E u \in Users, c \in Chats : admin_pin_topic(u, c, PinTopic)
    \/ \E c \in Chats : admin_topic_clear(c)
    \/ \E u \in Users, c \in Chats : RemAdd(u, c)
    \/ \E u \in Users, c \in Chats, b \in Buttons(DialogueDays) :
           b.k \in {"date", "time"} /\ callbacks_reminders(u, c, b)
    \/ \E u \in Users, c \in Chats : text_router(u, c, Word)

SpecTopic == InitTopic /\ [][NextTopic]_vars

(* The sweep over a DATA_FILE that was rewritten from outside (an           *)
(* operator's edit, a restored copy) while the process runs: the jobs are   *)
(* those registered from the document of the start-up, the document is      *)
(* another one with the same ids.  The ids are uuid4 strings, never empty,  *)
(* so `if not rid: continue` skips none of them.                            *)

\* The day of the events the jobs were registered for.
SweepDay == 5

\* event_dt as the rewritten file can hold it: any stored form of the
\* event of day 1, or the one the jobs were registered for.
SweepForms ==
    UNION {StoredForms(e) : e \in EventTimes({1})}
        \cup {dt_to_iso(e) : e \in EventTimes({SweepDay})}

\* The topic the first reminder was made in (thread_id).
SweepThread == 7

\* The document of the reminders 1..MaxList with event_dt x[1], x[2], ...;
\* the first one is bound to a topic.
SweepDoc(c, u, x) ==
    [EmptyDoc EXCEPT !.reminders =
        [i \in 1..MaxList |->
            Reminder(i, c, u, Word, x[i],
                     IF i = 1 THEN Some(SweepThread) ELSE None)]]

\* The process runs; the first n reminders were in the document of the
\* start-up, each with its event on SweepDay, the others were written into
\* the file later and have no job.
InitSweep ==
    /\ now = FirstInstant
    /\ up = TRUE
    /\ \E c \in Chats, u \in Users, n \in 0..MaxList :
          /\ \E e \in [1..n -> EventTimes({SweepDay})] :
                jobs = ScheduleAll({}, [i \in 1..n |->
                           Reminder(i, c, u, Word, dt_to_iso(e[i]),
                                    IF i = 1 THEN Some(SweepThread) ELSE None)], now)
          /\ \E x \in [1..MaxList -> SweepForms] : disk = SweepDoc(c, u, x)
    /\ sent = [j \in JobIds |-> 0]
    /\ states = [u \in Users |-> None]
    /\ nextId = MaxList + 1
    /\ th = Idle
    /\ added = 1..MaxList
    /\ purged = {}
    /\ last = Other

NextSweep ==
    \/ \E t \in Instants({1}) : Tick(t)
    \/ Stop
    \/ Start
    \/ \E j \in jobs : RunJob(j)
    \/ Cleanup
    \/ \E c \in Chats : RemList(c)

SpecSweep == InitSweep /\ [][NextSweep]_vars

-----------------------------------------------------------------------------
(* Properties. *)

Range(s) == {s[i] : i \in 1..Len(s)}

Parseable(r) == dt_from_iso(r.event_dt) # None

\* The event instant of a reminder whose event_dt parses.
EventOf(r) == Val(dt_from_iso(r.event_dt))

JobsFor(js, rid) == {j \in js : j.id[1] = rid}

\* The reminders schedule_reminder_jobs has just run for, if the last
\* operation ran it: all stored ones at start-up, the new one in
\* finalize_reminder.
Scheduled ==
    CASE last.op = "start" -> {r \in Range(disk.reminders) : Parseable(r)}
      [] last.op = "finalize" /\ last.res = "added" ->
             {r \in Range(disk.reminders) : r.id = last.rid}
      [] OTHER -> {}

\* C1: a finalize_reminder whose date and time combine to an instant that
\* is not after now is turned down, and changes neither the store nor the
\* scheduler's jobs.
C1_NoPastCommits ==
    [][(last'.op = "finalize" /\ last'.event # None /\ Val(last'.event) <= now)
          => (last'.res = "past" /\ disk' = disk /\ jobs' = jobs)]_vars

\* C1, its case: a time equal to now has just been turned down.
C1_Witness ==
    /\ last.op = "finalize" /\ last.res = "past"
    /\ Val(last.event) = now

\* C2: no save loses an update: every reminder whose append was saved and
\* that cleanup has not removed is in the store, and no reminder cleanup
\* has removed is in the store.
C2_NoLostUpdate ==
    /\ (added \ purged) \subseteq Ids(disk.reminders)
    /\ purged \cap Ids(disk.reminders) = {}

\* The jobs the stored reminders call for at time t: one for each reminder
\* and kind whose fire time is still ahead.
DerivedJobs(rems, t) ==
    {Job(JobId(r.id, Kinds[k]), EventOf(r) - Delta(Kinds[k]), r) :
        <<r, k>> \in {x \in {y \in Range(rems) : Parseable(y)} \X {1, 2} :
                        EventOf(x[1]) - Delta(Kinds[x[2]]) > t}}

\* C3: right after start-up the scheduler's jobs are exactly the ones the
\* stored reminders call for, and a second reschedule_all_from_store would
\* change neither the jobs nor the document.
C3_RehydrationIdempotent ==
    last.op = "start" =>
        /\ jobs = DerivedJobs(disk.reminders, now)
        /\ ScheduleAll(jobs, disk.reminders, now) = jobs
        /\ RescheduledDoc(disk) = disk

\* C3, its case: a restart (a notification was sent by an earlier run) that
\* has registered jobs again.
C3_Witness ==
    /\ last.op = "start"
    /\ jobs # {}
    /\ \E j \in JobIds : sent[j] > 0

\* C4: a notification whose fire time passed less than the grace time
\* before start-up, and that was not sent, is registered by start-up, so
\* that it is sent after the restart.
C4_GraceAcrossDowntime ==
    last.op = "start" =>
        \A r \in {x \in Range(disk.reminders) : Parseable(x)} : \A k \in {1, 2} :
            LET run_at == EventOf(r) - Delta(Kinds[k])
            IN  (/\ run_at < now
                 /\ now - run_at < misfire_grace_time
                 /\ sent[JobId(r.id, Kinds[k])] = 0)
                    => \E j \in jobs : j.id = JobId(r.id, Kinds[k])

\* C5: no notification is sent twice, and the scheduler holds at most one
\* job under one id.
C5_AtMostOnce ==
    /\ \A j \in JobIds : sent[j] <= 1
    /\ \A j1, j2 \in jobs : j1.id = j2.id => j1 = j2

\* C5, its case: a restart after a notification was sent, with the
\* reminder still stored.
C5_Witness ==
    /\ last.op = "start"
    /\ \E r \in Range(disk.reminders) : sent[JobId(r.id, "24h")] = 1

\* C6 as stated: a reminder more than 1 hour ahead when scheduled has both
\* jobs.
C6_TwoJobsOver1h ==
    \A r \in Scheduled :
        EventOf(r) - now > 1 * Hour =>
            JobsFor(jobs, r.id) = {Job(JobId(r.id, "24h"), EventOf(r) - 24 * Hour, r),
                                   Job(JobId(r.id, "1h"), EventOf(r) - 1 * Hour, r)}

\* C6, amended: a reminder more than 24 hours ahead when scheduled has
\* exactly the two jobs, at event time - 24h and event time - 1h.
C6_TwoJobsOver24h ==
    \A r \in Scheduled :
        EventOf(r) - now > 24 * Hour =>
            JobsFor(jobs, r.id) = {Job(JobId(r.id, "24h"), EventOf(r) - 24 * Hour, r),
                                   Job(JobId(r.id, "1h"), EventOf(r) - 1 * Hour, r)}

\* C6, its case: the dialogue has just added a reminder more than 24 hours
\* ahead.
C6_Witness ==
    /\ last.op = "finalize" /\ last.res = "added"
    /\ Val(last.event) - now > 24 * Hour
    /\ Cardinality(JobsFor(jobs, last.rid)) = 2

\* C7: a reminder more than 1 hour and at most 24 hours ahead when
\* scheduled has exactly one job, the 1h one at event time - 1h.
C7_OneJob ==
    \A r \in Scheduled :
        (EventOf(r) - now > 1 * Hour /\ EventOf(r) - now <= 24 * Hour) =>
            JobsFor(jobs, r.id) = {Job(JobId(r.id, "1h"), EventOf(r) - 1 * Hour, r)}

\* C7, its case: start-up has found a reminder between 1 and 24 hours
\* ahead.
C7_Witness ==
    /\ last.op = "start"
    /\ \E r \in Scheduled :
          /\ EventOf(r) - now > 1 * Hour /\ EventOf(r) - now < 24 * Hour
          /\ Cardinality(JobsFor(jobs, r.id)) = 1

\* C8: a reminder at most 1 hour ahead (or past) when scheduled has no job
\* afterwards; schedule_reminder_jobs run in any state for such a stored
\* reminder leaves none of the jobs that were pending for it.
C8_NoJob ==
    /\ \A r \in Scheduled :
          EventOf(r) - now <= 1 * Hour => JobsFor(jobs, r.id) = {}
    /\ \A r \in {x \in Range(disk.reminders) : Parseable(x)} :
          EventOf(r) - now <= 1 * Hour =>
              JobsFor(schedule_reminder_jobs(jobs, r, now), r.id) = {}

\* C8, its case: a stored reminder at most 1 hour ahead whose job is still
\* pending, and that schedule_reminder_jobs leaves without one.
C8_Witness ==
    \E r \in {x \in Range(disk.reminders) : Parseable(x)} :
        /\ EventOf(r) - now <= 1 * Hour
        /\ JobsFor(jobs, r.id) # {}
        /\ JobsFor(schedule_reminder_jobs(jobs, r, now), r.id) = {}

\* C9: of the reminders cleanup_expired loaded, those whose event time is
\* before now - retention are not in the store afterwards, and those whose
\* event time is at or after it are.
C9_CleanupBoundary ==
    last.op = "cleanup" =>
        \A r \in {x \in Range(last.items) : Parseable(x)} :
            /\ EventOf(r) < cutoff(now) => r.id \notin Ids(disk.reminders)
            /\ EventOf(r) >= cutoff(now) => Normalized(r) \in Range(disk.reminders)

\* C9, its case: a sweep has removed a reminder one second older than the
\* cutoff and kept another one that is not older than the cutoff.
C9_Witness ==
    /\ last.op = "cleanup" /\ last.res = "saved"
    /\ \E r \in {x \in Range(last.items) : Parseable(x)} :
          /\ EventOf(r) = cutoff(now) - 1
          /\ r.id \notin Ids(disk.reminders)
    /\ \E r \in {x \in Range(last.items) : Parseable(x)} :
          /\ EventOf(r) >= cutoff(now)
          /\ r.id \in Ids(disk.reminders)

\* C10 as stated: the listing holds no reminder whose event_dt does not
\* parse.
C10_CorruptHidden ==
    last.op = "rem_list" =>
        \A r \in Range(last.items) : Parseable(r)

\* C10, amended: the listing holds every stored reminder of the chat, the
\* ones whose event_dt does not parse included (unchanged), and nothing
\* else.
C10_CorruptListed ==
    last.op = "rem_list" =>
        /\ Range(last.items) =
              {r \in Range(disk.reminders) : r.chat_id = last.chat}
        /\ Len(last.items) =
              Cardinality({i \in 1..Len(disk.reminders) :
                              disk.reminders[i].chat_id = last.chat})

\* C10, its case: a listing of a chat that holds a reminder whose event_dt
\* does not parse and one whose event_dt does.
C10_Witness ==
    /\ last.op = "rem_list"
    /\ \E r \in Range(last.items) : ~Parseable(r)
    /\ \E r \in Range(last.items) : Parseable(r)


\* C11: of the reminders cleanup_expired loaded, none whose event_dt does
\* not parse is in the store afterwards, and each one whose event_dt parses
\* and is not older than the retention is there with the id, the title,
\* the chat, the thread and the event instant it had.
C11_CorruptPurged ==
    last.op = "cleanup" =>
        /\ \A r \in Range(last.items) :
              ~Parseable(r) => r.id \notin Ids(disk.reminders)
        /\ \A r \in {x \in Range(last.items) : Parseable(x)} :
              EventOf(r) >= cutoff(now) =>
                  \E s \in {x \in Range(disk.reminders) : Parseable(x)} :
                      /\ s.id = r.id /\ s.title = r.title
                      /\ s.chat_id = r.chat_id /\ s.thread_id = r.thread_id
                      /\ s.creator_id = r.creator_id
                      /\ EventOf(s) = EventOf(r)

\* C11, its case: a sweep has removed a reminder whose event_dt does not
\* parse and left a valid one in the store.
C11_Witness ==
    /\ last.op = "cleanup" /\ last.res = "saved"
    /\ \E r \in Range(last.items) :
          ~Parseable(r) /\ r.id \notin Ids(disk.reminders)
    /\ \E r \in Range(last.items) :
          Parseable(r) /\ r.id \in Ids(disk.reminders)


\* C12: a cancel button pressed at any step leaves the user without a
\* dialogue state and changes neither the store nor the scheduler's jobs.
C12_CancelDestroys ==
    [][\A u \in Users, c \in Chats :
          callbacks_reminders(u, c, Cb("cancel", 0)) =>
              (states'[u] = None /\ disk' = disk /\ jobs' = jobs)]_vars

\* C12, its case: cancel has just been pressed at the time picker, after a
\* title and a date had been entered.
C12_Witness ==
    /\ last.op = "cancel" /\ last.res = "time_pick"
    /\ Val(last.items).title # None /\ Val(last.items).date # None
    /\ \A u \in Users : states[u] = None


\* The changes of step a dialogue may make: title, then the date (picked or
\* typed), then the time (picked or typed), and back to the date picker
\* when the time was turned down; rem_add starts over at the title.
StepOrder ==
    {<<"title", "date_pick">>,
     <<"date_pick", "date_manual">>, <<"date_pick", "time_pick">>,
     <<"date_manual", "time_pick">>,
     <<"time_pick", "time_manual">>,
     <<"time_pick", "date_pick">>, <<"time_manual", "date_pick">>,
     <<"date_pick", "title">>, <<"date_manual", "title">>,
     <<"time_pick", "title">>, <<"time_manual", "title">>}

\* C13: a dialogue state changes its step only along the order title,
\* date, time, and finalize_reminder only ever runs for a state that holds
\* a title and a date.
C13_LinearProgression ==
    [][/\ \A u \in Users :
            (/\ states[u] # None /\ states'[u] # None
             /\ Val(states'[u]).step # Val(states[u]).step)
                => <<Val(states[u]).step, Val(states'[u]).step>> \in StepOrder
       /\ last'.op = "finalize" => last'.res \notin {"key_error", "no_state"}]_vars


C16_CrossChatRejected ==
    [][\A u \in Users, c \in Chats \cup OtherChats :
          (/\ states[u] # None
           /\ Val(states[u]).chat_id # c
           /\ \/ \E b \in Buttons(DialogueDays) : callbacks_reminders(u, c, b)
              \/ \E x \in Texts(DialogueDays) : text_router(u, c, x))
              => (states' = states /\ disk' = disk /\ jobs' = jobs)]_vars


\* C17: whatever DATA_FILE held, the load_data of start-up raises no
\* exception: start-up goes through and leaves a document in the file.
C17_LoadNeverFails ==
    last.op = "start" => (last.res # "TypeError" /\ ~IsRaw(disk))


\* C18: a load_data that runs while the sweep's save_data is under way
\* gets the document the file held before the save or the document being
\* saved: the listing shows the reminders of one of the two, and
\* add_reminder_to_store appends to one of the two.
C18_SaveAtomic ==
    [][th.c.pc = "writing" =>
          /\ last'.op = "rem_list" =>
                 last'.items \in {ChatItems(th.c.old, last'.chat),
                                  ChatItems(th.c.data, last'.chat)}
          /\ (th.h.pc = "idle" /\ th'.h.pc = "add") =>
                 th'.h.data \in {th.c.old, th.c.data}]_vars


\* C19: the listing of a chat holds the stored reminders of that chat, each
\* once, none of another chat, and those whose event_dt parses follow each
\* other in the order of their event instants.
C19_ListForChatInOrder ==
    last.op = "rem_list" =>
        /\ \A i \in 1..Len(last.items) :
              /\ last.items[i].chat_id = last.chat
              /\ last.items[i] \in Range(disk.reminders)
        /\ \A r \in Range(disk.reminders) :
              r.chat_id = last.chat =>
                  Cardinality({i \in 1..Len(last.items) : last.items[i].id = r.id}) = 1
        /\ \A i, j \in 1..Len(last.items) :
              (i < j /\ Parseable(last.items[i]) /\ Parseable(last.items[j]))
                  => EventOf(last.items[i]) <= EventOf(last.items[j])

\* C19, its case: a listing of a chat whose reminders are stored later one
\* first, beside a reminder of another chat.
C19_Witness ==
    /\ last.op = "rem_list"
    /\ Len(last.items) >= 2
    /\ \E r \in Range(disk.reminders) : r.chat_id # last.chat
    /\ \E i, j \in 1..Len(disk.reminders) :
          /\ i < j
          /\ disk.reminders[i].chat_id = last.chat
          /\ disk.reminders[j].chat_id = last.chat
          /\ Parseable(disk.reminders[i]) /\ Parseable(disk.reminders[j])
          /\ EventOf(disk.reminders[i]) > EventOf(disk.reminders[j])

\* C20: the listing of a chat leaves every stored reminder of that chat
\* whose event_dt parses with event_dt in the canonical form (zone-aware,
\* offset of TZ) for the same instant, and leaves every other stored
\* reminder as it was.
C20_ReadSideHealing ==
    [][last'.op = "rem_list" =>
          /\ Len(disk'.reminders) = Len(disk.reminders)
          /\ \A i \in 1..Len(disk.reminders) :
                LET r == disk.reminders[i]
                    q == disk'.reminders[i]
                IN  IF r.chat_id = last'.chat /\ Parseable(r)
                    THEN /\ q.event_dt.fmt = "aware" /\ q.event_dt.off = TZ
                         /\ EventOf(q) = EventOf(r)
                         /\ [q EXCEPT !.event_dt = r.event_dt] = r
                    ELSE q = r]_vars

\* C20, its case: a listing has written back a chat whose reminders were
\* stored zone-less and in a foreign zone.
C20_Witness ==
    /\ last.op = "rem_list" /\ last.res = "written"
    /\ Len(last.items) >= 2
    /\ \A r \in Range(disk.reminders) :
          (r.chat_id = last.chat /\ Parseable(r)) =>
              (r.event_dt.fmt = "aware" /\ r.event_dt.off = TZ)


\* C21: start-up on a document goes through whatever its reminders lack:
\* no exception of schedule_reminder_jobs ends it, the process runs, and
\* every stored reminder that has its keys and is more than 24 hours
\* ahead has its two jobs.
C21_RehydrationSurvives ==
    (last.op = "start" /\ ~IsRaw(disk)) =>
        /\ last.res # "KeyError"
        /\ up
        /\ \A r \in Range(disk.reminders) :
              (~ScheduleRaises(r) /\ Parseable(r) /\ EventOf(r) - now > 24 * Hour)
                  => Cardinality(JobsFor(jobs, r.id)) = 2

\* C22: for the instant of every stored reminder, formatting it gives a
\* string that parses, and formatting what it parses to gives the same
\* string again; normalizing a reminder twice is normalizing it once.
C22_RoundTrip ==
    \A r \in Range(disk.reminders) :
        Parseable(r) =>
            LET s == dt_to_iso(EventOf(r))
            IN  /\ dt_from_iso(s) # None
                /\ dt_to_iso(Val(dt_from_iso(s))) = s
                /\ Normalized(Normalized(r)) = Normalized(r)

\* C22, its case: a listing has rewritten the reminders of its chat in the
\* canonical form while a reminder of another chat is still stored
\* zone-less or in a foreign zone.
C22_Witness ==
    /\ last.op = "rem_list" /\ last.res = "written"
    /\ \E r \in Range(disk.reminders) :
          r.chat_id = last.chat /\ Parseable(r) /\ Normalized(r) = r
    /\ \E r \in Range(disk.reminders) :
          r.chat_id # last.chat /\ Parseable(r) /\ Normalized(r) # r

\* C23: after a sweep no job is pending for a reminder the sweep has taken
\* out of the store, whether that reminder had pending jobs or none; the
\* sweep takes out every reminder it finds expired or unparseable, and the
\* jobs of the reminders it keeps stay as they were.
C23_CleanupCancels ==
    [][Cleanup =>
          LET removed == Ids(disk.reminders) \ Ids(disk'.reminders)
          IN  /\ \A rid \in removed : JobsFor(jobs', rid) = {}
              /\ \A rid \in Ids(disk'.reminders) : JobsFor(jobs', rid) = JobsFor(jobs, rid)
              /\ \A r \in Range(disk.reminders) :
                    ~Kept(r, now) => r.id \in removed]_vars

\* C23, its case: one sweep has taken out the first reminder, expired and
\* with its two jobs pending since start-up, and the third one; the second
\* one is kept with its two jobs, and no job of the other two is left.
C23_Witness ==
    /\ last.op = "cleanup" /\ last.res = "saved"
    /\ {1, 2, 3} \subseteq Ids(last.items)
    /\ Ids(disk.reminders) \cap {1, 2, 3} = {2}
    /\ \E r \in Range(last.items) :
          r.id = 1 /\ Parseable(r) /\ EventOf(r) < cutoff(now)
    /\ Cardinality(JobsFor(jobs, 2)) = 2
    /\ JobsFor(jobs, 1) = {} /\ JobsFor(jobs, 3) = {}

\* C24: whenever the two jobs of a reminder are pending, the 24h job's
\* run date is strictly earlier than the 1h job's; and no 24h notification
\* is sent once the 1h notification of the same reminder has been sent.
C24_Order ==
    [][/\ \A j24, j1 \in jobs' :
             (j24.id[1] = j1.id[1] /\ j24.id[2] = "24h" /\ j1.id[2] = "1h")
                 => j24.run_date < j1.run_date
       /\ \A j \in jobs :
             (RunJob(j) /\ j.id[2] = "24h" /\ sent'[j.id] > sent[j.id])
                 => sent[JobId(j.id[1], "1h")] = 0]_vars

\* C24, its case: the 1h notification of a reminder has just been sent
\* after its 24h notification.
C24_Witness ==
    /\ last.op = "run_job" /\ last.res = "sent"
    /\ sent[JobId(last.rid, "24h")] = 1
    /\ sent[JobId(last.rid, "1h")] = 1
    /\ JobsFor(jobs, last.rid) = {}
    /\ \E r \in Range(disk.reminders) : r.id = last.rid /\ EventOf(r) - 1 * Hour <= now /\ now < EventOf(r)

\* C25: while the process runs and the sweep is run fairly, a stored
\* reminder whose event time is older than the retention is later absent
\* from the store, whatever creations and listings run in between.
C25_EventuallyPurged ==
    \A rid \in 1..MaxRem :
        (up /\ \E r \in Range(disk.reminders) :
                  r.id = rid /\ Parseable(r) /\ EventOf(r) < cutoff(now))
            ~> (rid \notin Ids(disk.reminders))

\* C25, its case: a sweep has taken an expired reminder out of the store
\* while a creation was between its load and its save.
C25_Witness ==
    /\ last.op = "cleanup" /\ last.res = "saved"
    /\ th.h.pc = "add"
    /\ \E r \in Range(last.items) :
          Parseable(r) /\ EventOf(r) < cutoff(now) /\ r.id \notin Ids(disk.reminders)

\* C26: no exception leaves a job that was run, whether Telegram took the
\* notification or not; the job is gone and not registered again, the
\* other jobs stay, and the store is as it was.
C26_FailureContained ==
    [][\A j \in jobs :
          RunJob(j) =>
              /\ last'.res # "raised"
              /\ disk' = disk
              /\ jobs' = jobs \ {j}]_vars

\* C27: a user has at most one dialogue state, and rem_add pressed while
\* one is in progress leaves the user with a new one at the title step, of
\* the chat of the press, with no title and no date, and leaves the store
\* and the jobs alone.
C27_OneSession ==
    [][/\ \A u \in Users : Len(states'[u]) <= 1
       /\ \A u \in Users, c \in Chats :
             RemAdd(u, c) =>
                 /\ states'[u] # None
                 /\ Val(states'[u]).step = "title"
                 /\ Val(states'[u]).chat_id = c
                 /\ Val(states'[u]).title = None
                 /\ Val(states'[u]).date = None
                 /\ \A v \in Users \ {u} : states'[v] = states[v]
                 /\ disk' = disk /\ jobs' = jobs]_vars

\* C27, its case: rem_add has just been pressed by a user whose dialogue
\* had a title and a date.
C27_Witness ==
    /\ last.op = "rem_add" /\ last.res = "entered"
    /\ \E u \in Users : states[u] = Some(NewState(last.chat, None))

\* C28: a text, a date or time button or a manual-entry button that comes
\* from a user who has no dialogue state changes nothing: no state is
\* made, the store, the jobs and the other users' states are as they were.
C28_NoSessionIgnored ==
    [][\A u \in Users \cup OtherUsers, c \in Chats :
          (/\ states[u] = None
           /\ \/ \E b \in Buttons(DialogueDays) \ {Cb("cancel", 0)} :
                    callbacks_reminders(u, c, b)
              \/ \E x \in {Empty, Word} : text_router(u, c, x))
              => (states' = states /\ disk' = disk /\ jobs' = jobs)]_vars

\* C28, its case: an event of a user without a dialogue state has just been
\* ignored while another user is in a dialogue, a reminder is stored and
\* its jobs are pending.
C28_Witness ==
    /\ last.op = "ignored" /\ last.res = "none"
    /\ \E u, v \in Users \cup OtherUsers :
          /\ states[u] = None
          /\ states[v] # None /\ Val(states[v]).title # None
    /\ disk.reminders # <<>>
    /\ jobs # {}

\* C29: an empty text at the title step, a text that is no date at the
\* date_manual step, and a text that is not a time written HH:MM with its
\* leading zero at the time_manual step leave the dialogue state, the
\* store and the jobs as they were.
C29_RepromptInPlace ==
    [][\A u \in Users, c \in Chats :
          (/\ states[u] # None
           /\ Val(states[u]).chat_id = c
           /\ \/ Val(states[u]).step = "title" /\ text_router(u, c, Empty)
              \/ /\ Val(states[u]).step = "date_manual"
                 /\ \E x \in Texts(DialogueDays) \cup Unpadded :
                       x.k \notin {"dmy", "ymd"} /\ text_router(u, c, x)
              \/ /\ Val(states[u]).step = "time_manual"
                 /\ \E x \in Texts(DialogueDays) \cup Unpadded :
                       x.k # "hhmm" /\ text_router(u, c, x))
              => (states' = states /\ disk' = disk /\ jobs' = jobs)]_vars

\* C30: a listing, a start-up and a sweep add no reminder to the store and
\* leave every reminder they keep with its id, its chat, its thread, its
\* title, its creator and its event instant; a reminder whose event_dt
\* does not parse is kept as it is or not at all.
C30_InstantPreserved ==
    [][last'.op \in {"rem_list", "start", "cleanup"} =>
          /\ Len(disk'.reminders) <= Len(disk.reminders)
          /\ \A q \in Range(disk'.reminders) :
                \E r \in Range(disk.reminders) :
                    /\ r.id = q.id
                    /\ r.chat_id = q.chat_id
                    /\ r.thread_id = q.thread_id
                    /\ r.title = q.title
                    /\ r.creator_id = q.creator_id
                    /\ IF Parseable(r)
                       THEN Parseable(q) /\ EventOf(q) = EventOf(r)
                       ELSE q = r]_vars

\* C30, its case: a sweep has kept a reminder bound to a topic whose
\* event_dt it found zone-less or in a foreign zone, and has written it
\* back in the canonical form.
C30_Witness ==
    /\ last.op = "cleanup" /\ last.res = "saved"
    /\ \E r \in Range(last.items) :
          /\ Parseable(r) /\ Normalized(r) # r
          /\ r.thread_id # None
          /\ Normalized(r) \in Range(disk.reminders)

\* C31: whatever texts and buttons came before and in whatever order, a
\* reminder that finalize_reminder adds to the store has a title that is
\* not blank and an event instant strictly after the time of the step.
C31_TitleAndFuture ==
    [][(last'.op = "finalize" /\ last'.res = "added") =>
          \A r \in Range(disk'.reminders) :
              r.id \notin Ids(disk.reminders) =>
                  /\ r.title # Empty
                  /\ r.title \in Texts(DialogueDays)
                  /\ Parseable(r)
                  /\ EventOf(r) > now]_vars

\* C31, its case: a reminder whose title is a text that reads as a time
\* has just been added one hour or less before its event.
C31_Witness ==
    /\ last.op = "finalize" /\ last.res = "added"
    /\ \E r \in Range(disk.reminders) :
          /\ r.id = last.rid
          /\ r.title.k = "hhmm"
          /\ EventOf(r) > now
          /\ EventOf(r) - now <= 1 * Hour

C33_NoOrphanJobs ==
    \A j \in jobs : j.id[1] \in Ids(disk.reminders)

\* C34: a dialogue state keeps the chat it was made with until rem_add
\* replaces it or it is destroyed, and a reminder that finalize_reminder
\* adds has that chat as its chat_id and the user of the state as its
\* creator_id, whichever chat the last button was pressed or the last text
\* was sent in.
C34_LandsWhereStarted ==
    [][/\ \A u \in Users \cup OtherUsers :
             (/\ states[u] # None /\ states'[u] # None
              /\ ~ \E c \in Chats \cup OtherChats : RemAdd(u, c))
                 => Val(states'[u]).chat_id = Val(states[u]).chat_id
       /\ (last'.op = "finalize" /\ last'.res = "added") =>
             \E u \in Users \cup OtherUsers :
                 /\ states[u] # None /\ states'[u] = None
                 /\ \A r \in Range(disk'.reminders) :
                       r.id \notin Ids(disk.reminders) =>
                           /\ r.chat_id = Val(states[u]).chat_id
                           /\ r.creator_id = u]_vars

\* C34, its case: the second user has just added a reminder in the other
\* chat while the first user is in a dialogue of the first chat.
C34_Witness ==
    /\ last.op = "finalize" /\ last.res = "added"
    /\ \E r \in Range(disk.reminders) :
          /\ r.id = last.rid
          /\ r.chat_id \in OtherChats
          /\ r.creator_id \in OtherUsers
    /\ \E u \in Users : states[u] # None /\ Val(states[u]).chat_id \in Chats

=============================================================================
